---- MODULE Spec2Model ----
(***************************************************************************)
(* Model of the Shopearn Pro API (src/main.py, src/schemas.py): the        *)
(* click-attribution and redirect pipeline, the admin vendor-link          *)
(* settings, the product counters and the hot-deal listing filter.         *)
(*                                                                         *)
(* The document store is a set of collections.  Every store operation      *)
(* (find_one, insert, update_one, delete_one) is atomic on its own; a      *)
(* handler that issues several store operations is modelled as one step    *)
(* per store operation so that requests served in parallel interleave      *)
(* between them.  Handlers that issue one write followed only by the read  *)
(* that builds their response body are one step.                           *)
(***************************************************************************)
EXTENDS Naturals, Sequences, FiniteSets, TLC

VARIABLES
    product,        \* collection "product": ObjectId -> document
    click,          \* collection "click": append-only log of click documents
    order,          \* collection "order": log of order documents
    adminsetting,   \* collection "adminsetting": documents in natural order
    now,            \* the clock read by datetime.now(timezone.utc)
    created,        \* number of ObjectIds handed out for products so far
    calls,          \* number of requests accepted so far
    pc,             \* per request slot: position inside its handler
    local,          \* per request slot: the handler's locals and its response
    found,          \* per product: redirect_product calls whose lookup found it
    listed          \* the response of the latest list_products call

vars == <<product, click, order, adminsetting, now, created, calls, pc, local,
          found, listed>>

store == <<product, click, order, adminsetting>>

---------------------------------------------------------------------------
(* Bounds of the model *)

MaxCalls == 3

MaxTime == 1

MaxProducts == 2

\* Two requests can be in flight at once.
Procs == {"w1", "w2"}

---------------------------------------------------------------------------
(* Data *)

\* schemas.py: Vendor
Vendor == {"amazon", "flipkart", "meesho", "shopify", "myntra", "ajio",
           "alibaba", "snapdeal"}

\* Path parameters tried for GET /r/{vendor}: the enum's names, a name outside
\* the enum, and the document's own "_id" key.
VendorNames == Vendor \cup {"ebay", "_id"}

NoneVal == "<None>"

\* Python truthiness of a settings value: `if not url`
Falsy(v) == v \in {NoneVal, ""}

\* bson: an ObjectId string is 24 hex digits
OidLen == 24

LowerHex == {"0", "1", "2", "3", "4", "5", "6", "7", "8", "9",
             "a", "b", "c", "d", "e", "f"}

UpperHex == {"A", "B", "C", "D", "E", "F"}

\* bson ObjectId.is_valid on a str: 24 characters, each a hex digit
IsObjectId(s) ==
    Len(s) = OidLen /\ \A i \in 1..Len(s) : s[i] \in LowerHex \cup UpperHex

\* str.lower() on one hex digit
LowerChar(ch) ==
    CASE ch = "A" -> "a" [] ch = "B" -> "b" [] ch = "C" -> "c"
      [] ch = "D" -> "d" [] ch = "E" -> "e" [] ch = "F" -> "f"
      [] OTHER -> ch

\* An ObjectId is written here as str() prints it: its lower-case hex digits.
Canonical(s) == [i \in 1..Len(s) |-> LowerChar(s[i])]

\* The last digits of the ObjectIds the store hands out, in order.
OidTail == <<"a", "b", "c", "d", "e", "f">>

\* The n-th ObjectId the store generates (n >= 0).
NewObjectId(n) == [i \in 1..OidLen |-> IF i < OidLen THEN "0" ELSE OidTail[n + 1]]

\* The same id as a client may spell it, in upper case.
UpperSpelling(n) ==
    [i \in 1..OidLen |-> IF i < OidLen THEN "0" ELSE <<"A", "B", "C", "D", "E", "F">>[n + 1]]

\* Path strings that are no ObjectId: empty, "not-an-object-id", one digit
\* short, one digit long, and the right length with one character wrong
\* (the first, a middle one, the last).
Malformed ==
    {<<>>,
     <<"n", "o", "t", "-", "a", "n", "-", "o", "b", "j", "e", "c", "t", "-", "i", "d">>,
     [i \in 1..(OidLen - 1) |-> "0"], [i \in 1..(OidLen + 1) |-> "0"]}
        \cup {[i \in 1..OidLen |-> IF i = k THEN "g" ELSE "0"] :
                k \in {1, OidLen \div 2, OidLen}}

\* The path strings redirect_product is called with: the ids products get, in
\* both spellings, an id no product gets, and the malformed strings.
IdStrings ==
    {NewObjectId(n) : n \in 0..MaxProducts}
        \cup {UpperSpelling(n) : n \in 0..(MaxProducts - 1)} \cup Malformed

\* The ids the other product handlers are called with: every id a product
\* can get (missing until created and again once deleted) and a malformed one.
SampleIds ==
    {NewObjectId(n) : n \in 0..(MaxProducts - 1)}
        \cup {[i \in 1..OidLen |-> IF i = OidLen THEN "g" ELSE "0"]}

Affiliates == {"a1", "a2"}

LinkOf(a) == IF a = "a1" THEN "https://v1/" ELSE "https://v2/"

\* POST /products bodies (ProductIn) that pass Product's validation.  An
\* Optional[datetime] is {} for None and {t} for the time t: with the clock
\* at 0 and later, the expiries are in the future, now, and in the past.
ProductInputs ==
    {[affiliate_id |-> "a1", hot_deal |-> TRUE, hot_deal_expires_at |-> {}],
     [affiliate_id |-> "a1", hot_deal |-> TRUE, hot_deal_expires_at |-> {0}],
     [affiliate_id |-> "a2", hot_deal |-> TRUE, hot_deal_expires_at |-> {1}],
     [affiliate_id |-> "a2", hot_deal |-> FALSE, hot_deal_expires_at |-> {1}]}

\* PUT /products/{id} bodies: any JSON object, merged with $set.
ProductPayloads ==
    {[clicks |-> 0], [orders |-> 0], [affiliate_link |-> "https://v2/"],
     [hot_deal |-> FALSE]}

\* POST /admin/settings bodies: any JSON object.
AdminPayloads ==
    {[amazon |-> "https://amzn/"], [amazon |-> ""], [flipkart |-> "https://fk/"],
     [ebay |-> "https://ebay/"]}

Idle ==
    [op |-> "none", prod |-> {}, vendor |-> "", url |-> NoneVal, payload |-> {},
     existing |-> {}, ops |-> 0, wrote |-> 0, status |-> 0, detail |-> "",
     location |-> ""]

---------------------------------------------------------------------------
(* The document store *)

\* collection.find_one({"_id": id}): {} is None, {doc} a hit.
find_one(coll, id) == IF id \in DOMAIN coll THEN {coll[id]} ELSE {}

\* collection.find_one({}) on a collection kept in natural order.
find_first(coll) == IF Len(coll) = 0 THEN {} ELSE {coll[1]}

\* {"$set": payload} applied to one document: payload's fields win.
SetFields(doc, payload) == payload @@ doc

\* dict.pop(key, None)
Pop(payload, key) == [k \in DOMAIN payload \ {key} |-> payload[k]]

\* A lost-update variant: the counter is written from the handler's snapshot.
IncClicksFromSnapshot(coll, prod, t) ==
    IF prod["_id"] \in DOMAIN coll
    THEN [coll EXCEPT ![prod["_id"]] =
            [@ EXCEPT !.clicks = prod.clicks + 1, !.updated_at = t]]
    ELSE coll

\* update_one({"_id": prod["_id"]}, {"$inc": {"clicks": 1}, "$set": {"updated_at": t}})
IncClicks(coll, prod, t) ==
    IF prod["_id"] \in DOMAIN coll
    THEN [coll EXCEPT ![prod["_id"]] =
            [@ EXCEPT !.clicks = @ + 1, !.updated_at = t]]
    ELSE coll

\* update_one({"_id": prod["_id"]}, {"$inc": {"orders": 1}})
IncOrders(coll, prod) ==
    IF prod["_id"] \in DOMAIN coll
    THEN [coll EXCEPT ![prod["_id"]] = [@ EXCEPT !.orders = @ + 1]]
    ELSE coll

\* database.create_document(collection_name, data): the document is appended
create_document(coll, doc) == Append(coll, doc)

\* matched_count of an update_one or deleted_count of a delete_one by id
Matched(coll, id) == IF id \in DOMAIN coll THEN 1 ELSE 0

(* Query documents.  A filter maps a field to a condition; "$or" maps to a  *)
(* set of filters.  None is matched as MongoDB matches null: the field is   *)
(* null or missing.  $gt against a date matches only dates (an Optional     *)
(* datetime is {} or {t}).                                                   *)
Eq(v) == [op |-> "eq", val |-> v]

IsNull == [op |-> "null"]

Gt(v) == [op |-> "gt", val |-> v]

Gte(v) == [op |-> "gte", val |-> v]

CondHolds(doc, k, cond) ==
    CASE cond.op = "eq" -> k \in DOMAIN doc /\ doc[k] = cond.val
      [] cond.op = "null" -> k \notin DOMAIN doc \/ doc[k] = {}
      [] cond.op = "gt" -> k \in DOMAIN doc /\ \E t \in doc[k] : t > cond.val
      [] cond.op = "gte" -> k \in DOMAIN doc /\ \E t \in doc[k] : t >= cond.val

MatchesFlat(doc, filt) == \A k \in DOMAIN filt : CondHolds(doc, k, filt[k])

Matches(doc, filt) ==
    \A k \in DOMAIN filt :
        IF k = "$or" THEN \E g \in filt[k] : MatchesFlat(doc, g)
        ELSE CondHolds(doc, k, filt[k])

\* collection.find(filt): the matching documents' ids
find(coll, filt) == {id \in DOMAIN coll : Matches(coll[id], filt)}

---------------------------------------------------------------------------
(* Helpers of main.py *)

\* A parser that checks the length only.
oidLengthOnly(s) == IF Len(s) = OidLen THEN {Canonical(s)} ELSE {}

\* oid(id_str): {} stands for HTTPException(400, "Invalid id")
oid(s) == IF IsObjectId(s) THEN {Canonical(s)} ELSE {}

\* The ObjectId of a string oid() accepts
TheOid(s) == CHOOSE o \in oid(s) : TRUE

Response(st, det, loc) == [status |-> st, detail |-> det, location |-> loc]

\* A handler returns or raises: the slot keeps the response and the call's
\* counts of store operations and of documents written; the locals go.
Respond(l, r) ==
    [Idle EXCEPT !.op = l.op, !.vendor = l.vendor, !.ops = l.ops, !.wrote = l.wrote,
                 !.status = r.status, !.detail = r.detail, !.location = r.location]

\* An idle slot takes the next request, while the request budget lasts.
CanBegin(c) == pc[c] \in {"idle", "done"} /\ calls < MaxCalls

\* schemas.py Product, as create_document stores it (clicks and orders 0)
ProductDoc(id, in, t) ==
    ("_id" :> id) @@
    [affiliate_id |-> in.affiliate_id, affiliate_link |-> LinkOf(in.affiliate_id),
     hot_deal |-> in.hot_deal, hot_deal_expires_at |-> in.hot_deal_expires_at,
     clicks |-> 0, orders |-> 0, updated_at |-> t]

\* schemas.py Click, as the redirect handlers fill it (user_id, ip and
\* user_agent are copied from the request and read by nothing)
ClickDoc(target, product_id, affiliate_id, vendor) ==
    [target |-> target, product_id |-> product_id, affiliate_id |-> affiliate_id,
     vendor |-> vendor]

\* schemas.py Order, as create_order fills it
OrderDoc(product_id, prod) ==
    [product_id |-> product_id, affiliate_id |-> prod.affiliate_id,
     status |-> "redirected", vendor_url |-> prod.affiliate_link]

Init ==
    /\ product = <<>>
    /\ click = <<>>
    /\ order = <<>>
    /\ adminsetting = <<>>
    /\ now = 0
    /\ created = 0
    /\ calls = 0
    /\ pc = [c \in Procs |-> "idle"]
    /\ local = [c \in Procs |-> Idle]
    /\ found = <<>>
    /\ listed = [hot_only |-> FALSE, affiliate_id |-> {}, at |-> 0, items |-> {}]

\* datetime.now(timezone.utc) moves on between store operations
Tick ==
    /\ now < MaxTime
    /\ now' = now + 1
    /\ UNCHANGED <<store, created, calls, pc, local, found, listed>>

---------------------------------------------------------------------------
(* Products *)

\* POST /products
create_product(in) ==
    /\ calls < MaxCalls
    /\ created < MaxProducts
    /\ LET id == NewObjectId(created) IN
        /\ product' = (id :> ProductDoc(id, in, now)) @@ product
        /\ found' = (id :> 0) @@ found
    /\ created' = created + 1
    /\ calls' = calls + 1
    /\ UNCHANGED <<click, order, adminsetting, now, pc, local, listed>>

\* PUT /products/{product_id}
update_product(s, payload) ==
    /\ calls < MaxCalls
    /\ calls' = calls + 1
    /\ product' =
        IF oid(s) = {} \/ Matched(product, TheOid(s)) = 0 THEN product
        ELSE [product EXCEPT ![TheOid(s)] =
                SetFields(@, ("updated_at" :> now) @@ Pop(payload, "_id"))]
    /\ UNCHANGED <<click, order, adminsetting, now, created, pc, local, found, listed>>

\* DELETE /products/{product_id}
delete_product(s) ==
    /\ calls < MaxCalls
    /\ calls' = calls + 1
    /\ product' =
        IF oid(s) = {} THEN product
        ELSE [id \in DOMAIN product \ oid(s) |-> product[id]]
    /\ UNCHANGED <<click, order, adminsetting, now, created, pc, local, found, listed>>

\* The hot-deal clause with an inclusive bound.
HotFilterInclusive(t) ==
    ("hot_deal" :> Eq(TRUE)) @@
    ("$or" :> {("hot_deal_expires_at" :> IsNull), ("hot_deal_expires_at" :> Gte(t))})

\* filt["hot_deal"] = True; filt["$or"] = [{expires: None}, {expires: {"$gt": now}}]
HotFilter(t) ==
    ("hot_deal" :> Eq(TRUE)) @@
    ("$or" :> {("hot_deal_expires_at" :> IsNull), ("hot_deal_expires_at" :> Gt(t))})

\* The filter list_products builds (q, category and vendor not given)
ListFilter(affiliate_id, hot_only, t) ==
    (IF affiliate_id = {} THEN <<>>
     ELSE "affiliate_id" :> Eq(CHOOSE a \in affiliate_id : TRUE))
    @@ (IF hot_only THEN HotFilter(t) ELSE <<>>)

\* GET /products?hot_only=&affiliate_id=
list_products(affiliate_id, hot_only) ==
    /\ calls < MaxCalls
    /\ calls' = calls + 1
    /\ listed' = [hot_only |-> hot_only, affiliate_id |-> affiliate_id, at |-> now,
                  items |-> find(product, ListFilter(affiliate_id, hot_only, now))]
    /\ UNCHANGED <<store, now, created, pc, local, found>>

---------------------------------------------------------------------------
(* Click tracking and redirects *)

\* `vendor in settings`
HasKey(doc, k) == k = "_id" \/ k \in DOMAIN doc.fields

\* settings.get(vendor); the "_id" value is an ObjectId, truthy and no string
GetKey(doc, k) == IF k = "_id" THEN "ObjectId" ELSE doc.fields[k]

\* url = None; if settings and vendor in settings: url = settings.get(vendor)
VendorUrl(settings, vendor) ==
    IF settings # {} /\ HasKey(CHOOSE d \in settings : TRUE, vendor)
    THEN GetKey(CHOOSE d \in settings : TRUE, vendor)
    ELSE NoneVal

\* A test for None alone, which lets an empty string through.
LinkMissingNoneOnly(url) == url = NoneVal

\* `if not url`
LinkMissing(url) == Falsy(url)

\* GET /r/{vendor}: the settings lookup (lines 240-245)
redirect_vendor(c, vendor) ==
    /\ CanBegin(c)
    /\ calls' = calls + 1
    /\ LET url == VendorUrl(find_first(adminsetting), vendor)
           l == [Idle EXCEPT !.op = "redirect_vendor", !.vendor = vendor,
                             !.url = url, !.ops = 1]
       IN IF LinkMissing(url)
          THEN /\ pc' = [pc EXCEPT ![c] = "done"]
               /\ local' = [local EXCEPT ![c] =
                    Respond(l, Response(404, "Link not available yet", ""))]
          ELSE /\ pc' = [pc EXCEPT ![c] = "rv_click"]
               /\ local' = [local EXCEPT ![c] = l]
    /\ UNCHANGED <<store, now, created, found, listed>>

\* A click document that leaves the affiliate out.
product_click_no_affiliate(prod) == ClickDoc("product", prod["_id"], NoneVal, NoneVal)

\* ClickSchema(target="product", product_id=str(prod["_id"]),
\*             affiliate_id=prod.get("affiliate_id"), ...)
product_click(prod) == ClickDoc("product", prod["_id"], prod.affiliate_id, NoneVal)

\* ClickSchema(target="vendor_logo", vendor=vendor, ...)
vendor_click(vendor) == ClickDoc("vendor_logo", NoneVal, NoneVal, vendor)

\* A best-effort policy: the redirect is answered although the insert failed.
ClickFailureIgnored(loc) == Response(302, "", loc)

\* create_document raised: the exception leaves the handler (lines 254, 274)
ClickFailure(loc) == Response(500, "StorageError", "")

\* ClickSchema(vendor=vendor) rejects a name outside the Vendor literal
redirect_vendor_invalid(c) ==
    /\ pc[c] = "rv_click"
    /\ local[c].vendor \notin Vendor
    /\ pc' = [pc EXCEPT ![c] = "done"]
    /\ local' = [local EXCEPT ![c] = Respond(@, Response(500, "ValidationError", ""))]
    /\ UNCHANGED <<store, now, created, calls, found, listed>>

\* create_document("click", click); RedirectResponse(url, 302)
redirect_vendor_click(c) ==
    /\ pc[c] = "rv_click"
    /\ local[c].vendor \in Vendor
    /\ click' = create_document(click, vendor_click(local[c].vendor))
    /\ pc' = [pc EXCEPT ![c] = "done"]
    /\ local' = [local EXCEPT ![c] =
            Respond([@ EXCEPT !.ops = @ + 1, !.wrote = @ + 1],
                    Response(302, "", local[c].url))]
    /\ UNCHANGED <<product, order, adminsetting, now, created, calls, found, listed>>

\* create_document("click", click) fails with a store error
redirect_vendor_fail(c) ==
    /\ pc[c] = "rv_click"
    /\ local[c].vendor \in Vendor
    /\ pc' = [pc EXCEPT ![c] = "done"]
    /\ local' = [local EXCEPT ![c] =
            Respond([@ EXCEPT !.ops = @ + 1], ClickFailure(local[c].url))]
    /\ UNCHANGED <<store, now, created, calls, found, listed>>

\* The snapshot `prod` a handler holds
Prod(c) == CHOOSE d \in local[c].prod : TRUE

\* A lookup that logs the click before it checks the product.
redirect_product_logfirst(c, s) ==
    /\ CanBegin(c)
    /\ calls' = calls + 1
    /\ LET prod == IF oid(s) = {} THEN {} ELSE find_one(product, TheOid(s)) IN
        /\ click' = IF oid(s) # {} /\ prod = {}
                    THEN create_document(click, ClickDoc("product", TheOid(s), NoneVal, NoneVal))
                    ELSE click
        /\ pc' = [pc EXCEPT ![c] = IF prod = {} THEN "done" ELSE "rp_update"]
        /\ local' = [local EXCEPT ![c] =
                IF oid(s) = {}
                THEN Respond([Idle EXCEPT !.op = "redirect_product"],
                             Response(400, "Invalid id", ""))
                ELSE IF prod = {}
                THEN Respond([Idle EXCEPT !.op = "redirect_product", !.ops = 1],
                             Response(404, "Product not found", ""))
                ELSE [Idle EXCEPT !.op = "redirect_product", !.ops = 1, !.prod = prod]]
        /\ found' = IF prod = {} THEN found ELSE [found EXCEPT ![TheOid(s)] = @ + 1]
    /\ UNCHANGED <<product, order, adminsetting, now, created, listed>>

\* GET /r/product/{product_id}: oid() and the lookup (lines 260-262)
redirect_product(c, s) ==
    /\ CanBegin(c)
    /\ calls' = calls + 1
    /\ IF oid(s) = {}
       THEN /\ pc' = [pc EXCEPT ![c] = "done"]
            /\ local' = [local EXCEPT ![c] =
                    Respond([Idle EXCEPT !.op = "redirect_product"],
                            Response(400, "Invalid id", ""))]
            /\ found' = found
       ELSE LET prod == find_one(product, TheOid(s)) IN
            IF prod = {}
            THEN /\ pc' = [pc EXCEPT ![c] = "done"]
                 /\ local' = [local EXCEPT ![c] =
                        Respond([Idle EXCEPT !.op = "redirect_product", !.ops = 1],
                                Response(404, "Product not found", ""))]
                 /\ found' = found
            ELSE /\ pc' = [pc EXCEPT ![c] = "rp_update"]
                 /\ local' = [local EXCEPT ![c] =
                        [Idle EXCEPT !.op = "redirect_product", !.ops = 1,
                                     !.prod = prod]]
                 /\ found' = [found EXCEPT ![TheOid(s)] = @ + 1]
    /\ UNCHANGED <<store, now, created, listed>>

\* update_one: $inc clicks, $set updated_at (line 264)
redirect_product_update(c) ==
    /\ pc[c] = "rp_update"
    /\ product' = IncClicks(product, Prod(c), now)
    /\ pc' = [pc EXCEPT ![c] = "rp_click"]
    /\ local' = [local EXCEPT ![c] =
            [@ EXCEPT !.ops = @ + 1,
                      !.wrote = @ + Matched(product, Prod(c)["_id"])]]
    /\ UNCHANGED <<click, order, adminsetting, now, created, calls, found, listed>>

\* create_document("click", click); RedirectResponse(affiliate_link, 302)
redirect_product_click(c) ==
    /\ pc[c] = "rp_click"
    /\ click' = create_document(click, product_click(Prod(c)))
    /\ pc' = [pc EXCEPT ![c] = "done"]
    /\ local' = [local EXCEPT ![c] =
            Respond([@ EXCEPT !.ops = @ + 1, !.wrote = @ + 1],
                    Response(302, "", Prod(c).affiliate_link))]
    /\ UNCHANGED <<product, order, adminsetting, now, created, calls, found, listed>>

\* create_document("click", click) fails with a store error
redirect_product_fail(c) ==
    /\ pc[c] = "rp_click"
    /\ pc' = [pc EXCEPT ![c] = "done"]
    /\ local' = [local EXCEPT ![c] =
            Respond([@ EXCEPT !.ops = @ + 1], ClickFailure(Prod(c).affiliate_link))]
    /\ UNCHANGED <<store, now, created, calls, found, listed>>

---------------------------------------------------------------------------
(* Orders *)

\* POST /orders: oid() and the lookup (lines 287-289)
create_order(c, s) ==
    /\ CanBegin(c)
    /\ calls' = calls + 1
    /\ LET prod == IF oid(s) = {} THEN {} ELSE find_one(product, TheOid(s)) IN
        IF prod = {}
        THEN /\ pc' = [pc EXCEPT ![c] = "done"]
             /\ local' = [local EXCEPT ![c] =
                    Respond([Idle EXCEPT !.op = "create_order",
                                         !.ops = IF oid(s) = {} THEN 0 ELSE 1],
                            IF oid(s) = {} THEN Response(400, "Invalid id", "")
                            ELSE Response(404, "Product not found", ""))]
        ELSE /\ pc' = [pc EXCEPT ![c] = "co_insert"]
             /\ local' = [local EXCEPT ![c] =
                    [Idle EXCEPT !.op = "create_order", !.ops = 1, !.prod = prod]]
    /\ UNCHANGED <<store, now, created, found, listed>>

\* create_document("order", order) (line 297)
create_order_insert(c) ==
    /\ pc[c] = "co_insert"
    /\ order' = create_document(order, OrderDoc(Prod(c)["_id"], Prod(c)))
    /\ pc' = [pc EXCEPT ![c] = "co_inc"]
    /\ local' = [local EXCEPT ![c] = [@ EXCEPT !.ops = @ + 1, !.wrote = @ + 1]]
    /\ UNCHANGED <<product, click, adminsetting, now, created, calls, found, listed>>

\* update_one: $inc orders, then the order is read back (lines 298-301)
create_order_inc(c) ==
    /\ pc[c] = "co_inc"
    /\ product' = IncOrders(product, Prod(c))
    /\ pc' = [pc EXCEPT ![c] = "done"]
    /\ local' = [local EXCEPT ![c] =
            Respond([@ EXCEPT !.ops = @ + 2,
                              !.wrote = @ + Matched(product, Prod(c)["_id"])],
                    Response(200, "", ""))]
    /\ UNCHANGED <<click, order, adminsetting, now, created, calls, found, listed>>

---------------------------------------------------------------------------
(* Admin settings *)

\* AdminSetting(**payload): unknown keys are ignored, a value must be a URL
ValidSettings(payload) == \A k \in DOMAIN payload \cap Vendor : payload[k] # ""

\* The document create_document stores for AdminSetting(**payload)
SettingsDoc(id, payload) ==
    ("_id" :> id) @@
    [fields |-> [v \in Vendor |-> IF v \in DOMAIN payload THEN payload[v] ELSE NoneVal]]

\* POST /admin/settings: the lookup (lines 359-360)
save_admin_settings(c, payload) ==
    /\ CanBegin(c)
    /\ calls' = calls + 1
    /\ LET existing == find_first(adminsetting) IN
        /\ pc' = [pc EXCEPT ![c] = IF existing = {} THEN "sa_insert" ELSE "sa_update"]
        /\ local' = [local EXCEPT ![c] =
                [Idle EXCEPT !.op = "save_admin_settings", !.ops = 1,
                             !.payload = {Pop(payload, "_id")},
                             !.existing = {d["_id"] : d \in existing}]]
    /\ UNCHANGED <<store, now, created, found, listed>>

\* update_one({"_id": existing["_id"]}, {"$set": payload}); get_admin_settings()
save_admin_settings_update(c) ==
    /\ pc[c] = "sa_update"
    /\ LET payload == CHOOSE p \in local[c].payload : TRUE IN
        adminsetting' =
            [i \in DOMAIN adminsetting |->
                IF adminsetting[i]["_id"] \in local[c].existing
                THEN [adminsetting[i] EXCEPT !.fields = SetFields(@, payload)]
                ELSE adminsetting[i]]
    /\ pc' = [pc EXCEPT ![c] = "done"]
    /\ local' = [local EXCEPT ![c] =
            Respond([@ EXCEPT !.ops = @ + 2, !.wrote = @ + 1], Response(200, "", ""))]
    /\ UNCHANGED <<product, click, order, now, created, calls, found, listed>>

\* create_document("adminsetting", AdminSetting(**payload)); get_admin_settings()
save_admin_settings_insert(c) ==
    /\ pc[c] = "sa_insert"
    /\ LET payload == CHOOSE p \in local[c].payload : TRUE IN
        IF ValidSettings(payload)
        THEN /\ adminsetting' =
                    create_document(adminsetting,
                                    SettingsDoc(Len(adminsetting) + 1, payload))
             /\ local' = [local EXCEPT ![c] =
                    Respond([@ EXCEPT !.ops = @ + 2, !.wrote = @ + 1],
                            Response(200, "", ""))]
        ELSE /\ adminsetting' = adminsetting
             /\ local' = [local EXCEPT ![c] =
                    Respond(@, Response(500, "ValidationError", ""))]
    /\ pc' = [pc EXCEPT ![c] = "done"]
    /\ UNCHANGED <<product, click, order, now, created, calls, found, listed>>

---------------------------------------------------------------------------
(* Specifications *)

\* The product, order and product-redirect handlers
NextProduct ==
    \/ \E in \in ProductInputs : create_product(in)
    \/ \E s \in SampleIds, payload \in ProductPayloads : update_product(s, payload)
    \/ \E s \in SampleIds : delete_product(s)
    \/ \E c \in Procs, s \in IdStrings : redirect_product(c, s)
    \/ \E c \in Procs : redirect_product_update(c)
    \/ \E c \in Procs : redirect_product_click(c)
    \/ \E c \in Procs : redirect_product_fail(c)
    \/ \E c \in Procs, s \in SampleIds : create_order(c, s)
    \/ \E c \in Procs : create_order_insert(c)
    \/ \E c \in Procs : create_order_inc(c)

\* The product handlers and the listing, with the clock running
NextListing ==
    \/ Tick
    \/ \E in \in ProductInputs : create_product(in)
    \/ \E s \in SampleIds, payload \in ProductPayloads : update_product(s, payload)
    \/ \E s \in SampleIds : delete_product(s)
    \/ \E a \in {{}} \cup {{x} : x \in Affiliates}, h \in BOOLEAN : list_products(a, h)

\* The admin-settings and vendor-redirect handlers
NextVendor ==
    \/ \E c \in Procs, v \in VendorNames : redirect_vendor(c, v)
    \/ \E c \in Procs : redirect_vendor_invalid(c)
    \/ \E c \in Procs : redirect_vendor_click(c)
    \/ \E c \in Procs : redirect_vendor_fail(c)
    \/ \E c \in Procs, payload \in AdminPayloads : save_admin_settings(c, payload)
    \/ \E c \in Procs : save_admin_settings_update(c)
    \/ \E c \in Procs : save_admin_settings_insert(c)

\* The two redirect handlers with what they read put in place, and no
\* handler that deletes or overwrites a product.
NextRedirect ==
    \/ \E in \in ProductInputs : create_product(in)
    \/ \E c \in Procs, s \in IdStrings : redirect_product(c, s)
    \/ \E c \in Procs : redirect_product_update(c)
    \/ \E c \in Procs : redirect_product_click(c)
    \/ \E c \in Procs : redirect_product_fail(c)
    \/ \E c \in Procs, v \in VendorNames : redirect_vendor(c, v)
    \/ \E c \in Procs : redirect_vendor_invalid(c)
    \/ \E c \in Procs : redirect_vendor_click(c)
    \/ \E c \in Procs : redirect_vendor_fail(c)
    \/ \E c \in Procs, payload \in AdminPayloads : save_admin_settings(c, payload)
    \/ \E c \in Procs : save_admin_settings_update(c)
    \/ \E c \in Procs : save_admin_settings_insert(c)

Next == NextProduct \/ NextListing \/ NextVendor

\* Every handler of the model
Spec == Init /\ [][Next]_vars

\* The product collection under every handler that writes it
SpecProduct == Init /\ [][NextProduct]_vars

\* The product collection under the listing, as time passes
SpecListing == Init /\ [][NextListing]_vars

\* The adminsetting collection and the handlers that use it
SpecVendor == Init /\ [][NextVendor]_vars

\* Redirects alone, on products that stay
SpecRedirect == Init /\ [][NextRedirect]_vars

---------------------------------------------------------------------------
(* Claims *)

\* The click record expected of redirect_product for the product it read
ProductClick(c) ==
    [target |-> "product", product_id |-> Prod(c)["_id"],
     affiliate_id |-> Prod(c).affiliate_id, vendor |-> NoneVal]

\* The click record expected of redirect_vendor for the name it was given
VendorClick(c) ==
    [target |-> "vendor_logo", product_id |-> NoneVal, affiliate_id |-> NoneVal,
     vendor |-> local[c].vendor]

\* Slot c answers in this step
Answers(c) == pc[c] # "done" /\ pc'[c] = "done"

\* Slot c takes a request for handler op in this step
Begins(c, op) == CanBegin(c) /\ calls' = calls + 1 /\ local'[c].op = op

Thm_C2 ==
    \A id \in DOMAIN product :
        product[id].clicks + Cardinality({c \in Procs :
                pc[c] = "rp_update" /\ Prod(c)["_id"] = id}) = found[id]

\* Two calls read the product before either incremented it, and both have.
W_C2 ==
    \E id \in DOMAIN product :
        /\ \A c \in Procs :
            pc[c] = "rp_click" /\ Prod(c)["_id"] = id /\ Prod(c).clicks = 0
        /\ product[id].clicks = 2

(* C3: a redirect_vendor call whose lookup found a non-empty value for the  *)
(* name answers 302 to that value and appends one vendor_logo click record  *)
(* for the name, for names outside the Vendor enum too (a failing store     *)
(* aside).                                                                  *)
CE_C3 ==
    [][\A c \in Procs :
        (pc[c] = "rv_click" /\ Answers(c) /\ local'[c].detail # "StorageError")
            => /\ local'[c].status = 302
               /\ local'[c].location = local[c].url
               /\ click' = Append(click, VendorClick(c))]_vars

(* C4: redirect_vendor answers 404 "Link not available yet" and changes     *)
(* nothing in the store when there is no settings document, or the name is  *)
(* no field of it, or the field's value is None or empty.                   *)
Thm_C4 ==
    [][\A c \in Procs, v \in VendorNames :
        (/\ Begins(c, "redirect_vendor")
         /\ \/ Len(adminsetting) = 0
            \/ v # "_id" /\ v \notin DOMAIN adminsetting[1].fields
            \/ v # "_id" /\ adminsetting[1].fields[v] \in {NoneVal, ""}
         /\ redirect_vendor(c, v))
            => /\ pc'[c] = "done"
               /\ local'[c].status = 404
               /\ local'[c].detail = "Link not available yet"
               /\ store' = store]_vars

\* A 404 for a name whose stored value is the empty string.
W_C4 ==
    \E c \in Procs :
        /\ pc[c] = "done" /\ local[c].op = "redirect_vendor"
        /\ local[c].status = 404
        /\ Len(adminsetting) = 1
        /\ local[c].vendor \in Vendor
        /\ adminsetting[1].fields[local[c].vendor] = ""
        /\ click = <<>>

(* C5: redirect_product with a string that is no ObjectId answers 400       *)
(* "Invalid id" having issued no store operation, and the store is as       *)
(* before.                                                                  *)
Thm_C5 ==
    [][\A c \in Procs, s \in IdStrings :
        (Begins(c, "redirect_product") /\ ~IsObjectId(s) /\ redirect_product(c, s))
            => /\ pc'[c] = "done"
               /\ local'[c].status = 400
               /\ local'[c].detail = "Invalid id"
               /\ local'[c].ops = 0
               /\ store' = store]_vars

\* A 400 answered while there was a product to find.
W_C5 ==
    \E c \in Procs :
        /\ pc[c] = "done" /\ local[c].op = "redirect_product"
        /\ local[c].status = 400 /\ local[c].ops = 0
        /\ DOMAIN product # {}

(* C6: the adminsetting collection never holds more than one document.      *)
CE_C6 == Len(adminsetting) <= 1

(* C7: a product's clicks and orders never decrease; clicks changes only in *)
(* redirect_product's update_one and orders only in create_order's.         *)
CE_C7 ==
    [][\A id \in DOMAIN product \cap DOMAIN product' :
        /\ product'[id].clicks >= product[id].clicks
        /\ product'[id].orders >= product[id].orders
        /\ product'[id].clicks # product[id].clicks
            => \E c \in Procs : pc[c] = "rp_update" /\ pc'[c] = "rp_click"
        /\ product'[id].orders # product[id].orders
            => \E c \in Procs : pc[c] = "co_inc" /\ pc'[c] = "done"]_vars

(* C8: list_products with hot_only, called at time now, returns exactly the *)
(* products matching the other filter with hot_deal true and an expiry that *)
(* is None or later than now, now being the clock at that call.             *)
Thm_C8 ==
    [][\A a \in {{}} \cup {{x} : x \in Affiliates} :
        list_products(a, TRUE)
            => listed'.items =
                {id \in DOMAIN product :
                    /\ a = {} \/ product[id].affiliate_id \in a
                    /\ product[id].hot_deal = TRUE
                    /\ \/ product[id].hot_deal_expires_at = {}
                       \/ \E t \in product[id].hot_deal_expires_at : t > now}]_vars

\* A hot-only listing that returned a deal without expiry and left out a
\* hot deal whose expiry had come.
W_C8 ==
    /\ listed.hot_only
    /\ \E a, b \in DOMAIN product :
        /\ a \in listed.items
        /\ product[a].hot_deal /\ product[a].hot_deal_expires_at = {}
        /\ b \notin listed.items
        /\ product[b].hot_deal
        /\ \E t \in product[b].hot_deal_expires_at : t <= listed.at

(* C9 as claimed: a 302 is answered only with the call's click record       *)
(* written, and a call whose click insert failed answers no redirect and    *)
(* has written nothing.                                                     *)
CE_C9 ==
    \A c \in Procs :
        pc[c] = "done" =>
            /\ local[c].status = 302 => local[c].wrote >= 1
            /\ local[c].detail = "StorageError"
                => local[c].status = 500 /\ local[c].wrote = 0

(* C9 amended: a redirect answers 302 only in the step that appends its     *)
(* click record; when the click insert fails the call answers 500 with no   *)
(* redirect and that step changes nothing in the store, so redirect_vendor  *)
(* has written nothing, while redirect_product's increment of clicks, made  *)
(* before the insert, stays.                                                *)
Thm_C9 ==
    [][\A c \in Procs :
        /\ (pc[c] \in {"rv_click", "rp_click"} /\ Answers(c)
                /\ local'[c].status = 302)
            => click' = Append(click, IF pc[c] = "rv_click" THEN VendorClick(c)
                                      ELSE ProductClick(c))
        /\ (pc[c] \in {"rv_click", "rp_click"} /\ Answers(c)
                /\ local'[c].detail = "StorageError")
            => /\ local'[c].status = 500
               /\ local'[c].location = ""
               /\ store' = store
               /\ pc[c] = "rv_click" => local'[c].wrote = 0
               /\ pc[c] = "rp_click" => local'[c].wrote = local[c].wrote]_vars

\* redirect_product answered 500 for a failed click insert after its
\* increment: clicks is up and the click log is empty.
W_C9 ==
    \E c \in Procs :
        /\ pc[c] = "done" /\ local[c].op = "redirect_product"
        /\ local[c].detail = "StorageError"
        /\ local[c].wrote = 1
        /\ click = <<>>
        /\ \E id \in DOMAIN product : product[id].clicks = 1

(* C10: redirect_product with an ObjectId no product has answers 404        *)
(* "Product not found" and leaves the store as it was.                      *)
Thm_C10 ==
    [][\A c \in Procs, s \in IdStrings :
        (/\ Begins(c, "redirect_product")
         /\ IsObjectId(s) /\ Canonical(s) \notin DOMAIN product
         /\ redirect_product(c, s))
            => /\ pc'[c] = "done"
               /\ local'[c].status = 404
               /\ local'[c].detail = "Product not found"
               /\ store' = store]_vars

\* A 404 answered after a product was deleted, with nothing clicked.
W_C10 ==
    \E c \in Procs :
        /\ pc[c] = "done" /\ local[c].op = "redirect_product"
        /\ local[c].status = 404
        /\ Cardinality(DOMAIN product) < created
        /\ click = <<>>

====
